---- MODULE Spec2Model ----
(***************************************************************************)
(* Model of torch/csrc/autograd/profiler_kineto.cpp: the Kineto profiling  *)
(* session controller (prepareProfiler / enableProfiler / disableProfiler),*)
(* the RecordFunction capture callbacks, the per-thread profiling state    *)
(* (KinetoThreadLocalState) and ProfilerResult.                            *)
(*                                                                         *)
(* A logical execution context is a thread t \in Threads.  Every thread    *)
(* has its own c10::ThreadLocalDebugInfo PROFILER_STATE slot (debug_info)  *)
(* and its own set of thread-local RecordFunction callbacks (rf_tls).      *)
(* Profiling state objects live in the heap st; a slot holds the index of  *)
(* a state object, or NoState.  libkineto's activity profiler is the       *)
(* process-wide record kineto plus one correlation stack per thread.       *)
(*                                                                         *)
(* Timestamps (getTimeUs) and the optional shapes / dtypes / stack / flops *)
(* fields are not represented; the sequence number of an operation stands  *)
(* for the metadata finalizeCPUTrace attaches.  The 64-bit wrap of the     *)
(* correlation counter is out of reach of the bounds below.                *)
(*                                                                         *)
(* Spec is the file on its own: every state is reached through its slot by *)
(* the thread that enabled it.  SpecShared runs the sessions and the       *)
(* callbacks with the propagation of a thread's thread-local state (slot   *)
(* and callbacks) to another thread, so that two threads hold the same     *)
(* state object.  A state object lives as long as a slot refers to it (it  *)
(* is held by shared_ptr).  A dereference of the moved-from cpu_trace is   *)
(* undefined behaviour; it ends the run in a state with last =             *)
(* "undefined", which stands for every outcome.                            *)
(***************************************************************************)
EXTENDS Integers, Sequences, FiniteSets, TLC

\* ----------------------------------------------------------------- bounds
MaxOps == 2        \* operations started in a run
MaxSessions == 2   \* profiling states created in a run (Kineto and legacy)

\* the two logical execution contexts of the model
Threads == {1, 2}

\* ------------------------------------------------------------- vocabulary
NoState == 0
Null == [null |-> TRUE]
Destroyed == [destroyed |-> TRUE]

\* the (config.state, activities) arguments the callers pass
Arguments ==
    {<<"KINETO", {"CPU"}>>, <<"KINETO", {"CUDA"}>>,
     <<"KINETO", {}>>, <<"CPU", {"CPU"}>>}

VARIABLES
    corr_id_,     \* static std::atomic<uint64_t> corr_id_ of next_correlation_id
    debug_info,   \* thread -> index of the PROFILER_STATE debug info, or NoState
    rf_tls,       \* thread -> set of registered thread-local callback handles
    st,           \* heap of ProfilerThreadLocalState / KinetoThreadLocalState objects
    opStack,      \* thread -> stack of running instrumented operations (innermost last)
    nextOp,       \* number of operations started so far
    corrStack,    \* thread -> libkineto correlation id stack (top last)
    kineto,       \* libkineto::api().activityProfiler() lifecycle
    result,       \* the ProfilerResult returned by the latest successful disableProfiler
    issued,       \* history: values returned by next_correlation_id, in order
    ended,        \* history: [op, sid] for each operation whose end callback ran
                  \* while session sid was active on its thread, in that order;
                  \* kept for the live sessions and the session of result
    last          \* how the most recent call ended: "ok", "usage_error" (a
                  \* TORCH_CHECK on the arguments or the call sequence threw) or
                  \* "failure" (TORCH_CHECK(trace) or the internal assertion threw)
                  \* or "undefined" (the call dereferenced a null cpu_trace)

vars == <<corr_id_, debug_info, rf_tls, st, opStack, nextOp, corrStack,
          kineto, result, issued, ended, last>>

\* ------------------------------------------------------------ pure helpers
\* the history ended without the entries of the sessions in sids
RECURSIVE Forget(_, _)
Forget(log, sids) ==
    IF log = <<>> THEN <<>>
    ELSE IF Head(log).sid \in sids THEN Forget(Tail(log), sids)
    ELSE <<Head(log)>> \o Forget(Tail(log), sids)

\* uint64_t next_correlation_id(): return corr_id_++
next_correlation_id_LostUpdate(c) == [ret |-> c, corr_id_ |-> c]
next_correlation_id(c) == [ret |-> c, corr_id_ |-> c + 1]

\* KinetoEvent::KinetoEvent(): activity type defaults to CPU_OP, ids to 0
KinetoEvent ==
    [name |-> 0, activity_type_ |-> "CPU_OP", correlation_id_ |-> 0,
     linked_correlation_id_ |-> 0, sequenceNr |-> -1, endThreadId |-> 0]

\* KinetoEvent& KinetoEvent::activity(const libkineto::TraceActivity&); the
\* field linked of an activity is the correlation id of its linked activity,
\* 0 when it has none
activity_AnyCorrelation(ev, act) ==
    [ev EXCEPT !.name = act.name,
               !.correlation_id_ = act.correlation,
               !.activity_type_ = act.type,
               !.linked_correlation_id_ =
                   IF act.linked # 0 THEN act.linked ELSE @]
activity(ev, act) ==
    [ev EXCEPT !.name = act.name,
               !.correlation_id_ =
                   IF act.type = "CPU_OP" THEN act.correlation ELSE @,
               !.activity_type_ = act.type,
               !.linked_correlation_id_ =
                   IF act.linked # 0 THEN act.linked ELSE @]

\* the span of a trace for which no CpuTraceBuffer was transferred
NoSpan == [startTime |-> FALSE, endTime |-> FALSE]

\* std::make_unique<libkineto::CpuTraceBuffer>()
CpuTraceBuffer == [activities |-> <<>>, spanStart |-> FALSE, spanEnd |-> FALSE]

\* std::make_shared<KinetoThreadLocalState>(config)
KinetoThreadLocalState(config) ==
    [config |-> config, kineto_events_ |-> <<>>, cpu_trace |-> CpuTraceBuffer,
     handle |-> 0, legacy |-> <<>>]

\* KinetoThreadLocalState::reportClientActivity, on state object s
reportClientActivity_Prepend(s, fn, ctx) ==
    IF ctx = Null \/ s.cpu_trace = Null THEN s
    ELSE LET op == [type |-> "CPU_OP", name |-> fn, correlation |-> ctx.correlationId,
                    linked |-> 0, meta |-> -1]
         IN [s EXCEPT
               !.kineto_events_ =
                   <<[activity(KinetoEvent, op) EXCEPT !.sequenceNr = ctx.sequenceNr,
                                                       !.endThreadId = ctx.endThreadId]>> \o @,
               !.cpu_trace.activities = Append(@, op)]
reportClientActivity_EventOnly(s, fn, ctx) ==
    IF ctx = Null THEN s
    ELSE LET op == [type |-> "CPU_OP", name |-> fn, correlation |-> ctx.correlationId,
                    linked |-> 0, meta |-> -1]
         IN [s EXCEPT !.kineto_events_ = Append(@, activity(KinetoEvent, op))]
reportClientActivity(s, fn, ctx) ==
    IF ctx = Null THEN s
    ELSE LET op == [type |-> "CPU_OP", name |-> fn, correlation |-> ctx.correlationId,
                    linked |-> 0, meta |-> -1]
             ev == [activity(KinetoEvent, op) EXCEPT !.sequenceNr = ctx.sequenceNr,
                                                     !.endThreadId = ctx.endThreadId]
         IN IF s.cpu_trace = Null
            THEN \* lines 98-118 have run when line 119 dereferences cpu_trace
                 [s EXCEPT !.kineto_events_ = Append(@, ev)]
            ELSE [s EXCEPT !.kineto_events_ = Append(@, ev),
                           !.cpu_trace.activities = Append(@, op)]

\* KinetoThreadLocalState* getProfilerTLSState()
getProfilerTLSState(t) == debug_info[t]

\* does the slot of thread t hold a Kineto state (a session is active on t)?
Active(t) == debug_info[t] # NoState /\ st[debug_info[t]].config = "KINETO"

\* The heap after thread t dropped its references to state sid, the local
\* shared_ptr of disableProfiler included, leaving the object as s: it lives
\* on while the slot of another thread refers to it.
release(heap, sid, t, s) ==
    [heap EXCEPT ![sid] = IF \E u \in Threads \ {t} : debug_info[u] = sid
                          THEN s ELSE Destroyed]

\* ------------------------------------------------------------------- Init
Init ==
    /\ corr_id_ = 1
    /\ debug_info = [t \in Threads |-> NoState]
    /\ rf_tls = [t \in Threads |-> {}]
    /\ st = <<>>
    /\ opStack = [t \in Threads |-> <<>>]
    /\ nextOp = 0
    /\ corrStack = [t \in Threads |-> <<>>]
    /\ kineto = [prepared |-> FALSE, running |-> 0, cpu |-> <<>>, span |-> NoSpan]
    /\ result = Null
    /\ issued = <<>>
    /\ ended = <<>>
    /\ last = "none"

\* ------------------------------------------------- Instrumentation hooks
\* at::addThreadLocalCallback / at::removeCallback on thread t
addThreadLocalCallback(tls, t, handle) == [tls EXCEPT ![t] = @ \cup {handle}]
removeCallback(tls, t, handle) == [tls EXCEPT ![t] = @ \ {handle}]

\* libkineto::api().activityProfiler(): the calls the file makes
prepareTrace(k) == [k EXCEPT !.prepared = TRUE]
startTrace(k) == [k EXCEPT !.prepared = FALSE, !.running = @ + 1]
transferCpuTrace(k, buf) ==
    [k EXCEPT !.cpu = @ \o buf.activities,
              !.span = [startTime |-> buf.spanStart, endTime |-> buf.spanEnd]]
stopTraceState(k) ==
    [k EXCEPT !.prepared = FALSE, !.running = IF @ > 0 THEN @ - 1 ELSE 0,
              !.cpu = <<>>, !.span = NoSpan]
pushCorrelationId(stack, id) == Append(stack, id)
popCorrelationId(stack) == IF stack = <<>> THEN stack ELSE SubSeq(stack, 1, Len(stack) - 1)

\* What libkineto reports on its own (device side) in one trace: nothing,
\* one kernel with its own correlation id, unlinked or linked to the latest
\* transferred CPU op, or a memory copy and an unlinked kernel.
ExtActivity(linked) ==
    [type |-> "CONCURRENT_KERNEL", name |-> 0, correlation |-> 7,
     linked |-> linked, meta |-> -1]
ExtMemcpy ==
    [type |-> "GPU_MEMCPY", name |-> 0, correlation |-> 8, linked |-> 0, meta |-> -1]
ExtTraces(cpu) ==
    LET links == {0} \cup {cpu[i].correlation : i \in {Len(cpu)} \ {0}}
    IN {<<>>, <<ExtMemcpy, ExtActivity(0)>>} \cup {<<ExtActivity(l)>> : l \in links}

\* what stopTrace() may return: no trace, or the transferred CPU activities
\* with the collector's own ones after them (one of them before, when the
\* collector reports two)
stopTraceResults(k) ==
    {Null} \cup
    {[activities |-> IF Len(ext) = 2 THEN <<ext[1]>> \o k.cpu \o <<ext[2]>>
                     ELSE k.cpu \o ext,
      span |-> k.span,
      saves |-> 0] : ext \in ExtTraces(k.cpu)}

\* ------------------------------------------------------ capture callbacks
\* the context a start callback returns when it does not instrument
NoopContext == [correlationId |-> 0, sequenceNr |-> 0, endThreadId |-> 0]

\* start callback, lines 218-258: does the callback instrument the operation?
startInstruments(state_ptr) ==
    ~(state_ptr = NoState \/ st[state_ptr].config # "KINETO")

\* end callback, lines 260-263: does the callback record the operation?
endRecords_Never(state_ptr) == FALSE
endRecords(state_ptr) ==
    ~(state_ptr = NoState \/ st[state_ptr].config # "KINETO")

\* An instrumented operation (a RecordFunction) starts on thread t and the
\* registry calls the start callback registered on t.  Operations started
\* while no callback is registered on t run no code of this file and are
\* not represented.
StartOp(t) ==
    /\ nextOp < MaxOps
    /\ rf_tls[t] # {}
    /\ LET fn == nextOp + 1
           state_ptr == getProfilerTLSState(t)
       IN /\ nextOp' = fn
          /\ IF ~startInstruments(state_ptr)
             THEN /\ opStack' = [opStack EXCEPT ![t] = Append(@, [fn |-> fn, ctx |-> NoopContext])]
                  /\ UNCHANGED <<corr_id_, corrStack, issued>>
             ELSE LET n == next_correlation_id(corr_id_)
                      ctx_ptr == [NoopContext EXCEPT !.correlationId = n.ret, !.sequenceNr = fn]
                  IN /\ corr_id_' = n.corr_id_
                     /\ issued' = Append(issued, n.ret)
                     /\ corrStack' = [corrStack EXCEPT ![t] = pushCorrelationId(@, n.ret)]
                     /\ opStack' = [opStack EXCEPT ![t] = Append(@, [fn |-> fn, ctx |-> ctx_ptr])]
    /\ last' = "ok"
    /\ UNCHANGED <<debug_info, rf_tls, st, kineto, result, ended>>

\* The innermost running operation of thread t ends and the registry calls
\* the end callback with the context its start callback returned.
EndOp(t) ==
    /\ opStack[t] # <<>>
    /\ LET op == opStack[t][Len(opStack[t])]
           state_ptr == getProfilerTLSState(t)
       IN /\ opStack' = [opStack EXCEPT ![t] = SubSeq(@, 1, Len(@) - 1)]
          /\ IF ~endRecords(state_ptr)
             THEN /\ last' = "ok"
                  /\ UNCHANGED <<st, corrStack>>
             ELSE /\ st' = [st EXCEPT ![state_ptr] =
                              reportClientActivity(@, op.fn, [op.ctx EXCEPT !.endThreadId = t])]
                  /\ IF st[state_ptr].cpu_trace = Null
                     THEN /\ last' = "undefined"
                          /\ UNCHANGED corrStack
                     ELSE /\ last' = "ok"
                          /\ corrStack' = [corrStack EXCEPT ![t] = popCorrelationId(@)]
          /\ ended' = IF Active(t) THEN Append(ended, [op |-> op.fn, sid |-> debug_info[t]])
                      ELSE ended
    /\ UNCHANGED <<corr_id_, debug_info, rf_tls, nextOp, kineto, result, issued>>

\* ------------------------------------------------------ session controller
\* prepareProfiler, line 326: TORCH_CHECK(config.state == ProfilerState::KINETO)
prepareProfiler_check_Any(config) == TRUE
prepareProfiler_check(config) == config = "KINETO"

\* void prepareProfiler(config, activities): reads and writes no
\* thread-local state, so the calling thread is not a parameter
prepareProfiler(config, activities) ==
    /\ IF ~prepareProfiler_check(config)
       THEN /\ last' = "usage_error"
            /\ UNCHANGED kineto
       ELSE /\ kineto' = prepareTrace(kineto)
            /\ last' = "ok"
    /\ UNCHANGED <<corr_id_, debug_info, rf_tls, st, opStack, nextOp, corrStack,
                   result, issued, ended>>

\* enableProfiler, lines 366-370: the TORCH_CHECKs, in order
enableProfiler_check_NoAlready(config, activities, state_ptr) ==
    IF config # "KINETO" THEN "err_state"
    ELSE IF activities = {} THEN "err_empty"
    ELSE "ok"
enableProfiler_check_NoEmpty(config, activities, state_ptr) ==
    IF config # "KINETO" THEN "err_state"
    ELSE IF state_ptr # NoState THEN "err_already"
    ELSE "ok"
enableProfiler_check(config, activities, state_ptr) ==
    IF config # "KINETO" THEN "err_state"
    ELSE IF activities = {} THEN "err_empty"
    ELSE IF state_ptr # NoState THEN "err_already"
    ELSE "ok"

\* pushProfilingCallbacks(): registers the callback pair on the calling
\* thread and stores the handle in the state (the handle of state sid is sid)
pushProfilingCallbacks_NoRegister(t, sid, heap, tls) ==
    [st |-> [heap EXCEPT ![sid].handle = sid], rf_tls |-> tls]
pushProfilingCallbacks(t, sid, heap, tls) ==
    [st |-> [heap EXCEPT ![sid].handle = sid],
     rf_tls |-> addThreadLocalCallback(tls, t, sid)]

\* void enableProfiler(config, activities)
enableProfiler(t, config, activities) ==
    LET chk == enableProfiler_check(config, activities, getProfilerTLSState(t))
    IN IF chk # "ok"
       THEN /\ last' = "usage_error"
            /\ UNCHANGED <<corr_id_, debug_info, rf_tls, st, opStack, nextOp,
                           corrStack, kineto, result, issued, ended>>
       ELSE /\ Len(st) < MaxSessions
            /\ LET sid == Len(st) + 1
                   state == [KinetoThreadLocalState(config) EXCEPT
                               !.cpu_trace.spanStart = TRUE,
                               !.legacy = Append(@, "__start_profile")]
                   heap == Append(st, state)
                   pushed == IF "CPU" \in activities
                             THEN pushProfilingCallbacks(t, sid, heap, rf_tls)
                             ELSE [st |-> heap, rf_tls |-> rf_tls]
               IN /\ debug_info' = [debug_info EXCEPT ![t] = sid]
                  /\ st' = pushed.st
                  /\ rf_tls' = pushed.rf_tls
            /\ kineto' = startTrace(kineto)
            /\ last' = "ok"
            /\ UNCHANGED <<corr_id_, opStack, nextOp, corrStack, result, issued, ended>>

\* KinetoThreadLocalState::finalizeCPUTrace: the size assertion
finalizeCPUTrace_ok(s) == Len(s.cpu_trace.activities) = Len(s.kineto_events_)

\* KinetoThreadLocalState::finalizeCPUTrace: metadata of event idx goes to
\* activity idx (the sequence number stands for all metadata)
finalizeCPUTrace_Skip(s) == s
finalizeCPUTrace(s) ==
    [s EXCEPT !.cpu_trace.activities =
        [idx \in 1..Len(@) |->
            IF s.kineto_events_[idx].sequenceNr >= 0
            THEN [@[idx] EXCEPT !.meta = s.kineto_events_[idx].sequenceNr]
            ELSE @[idx]]]

\* KinetoThreadLocalState::addTraceEvents: import what is not a CPU_OP
RECURSIVE addTraceEvents_All(_, _)
addTraceEvents_All(events, acts) ==
    IF acts = <<>> THEN events
    ELSE addTraceEvents_All(Append(events, activity(KinetoEvent, Head(acts))), Tail(acts))
RECURSIVE addTraceEvents(_, _)
addTraceEvents(events, acts) ==
    IF acts = <<>> THEN events
    ELSE addTraceEvents(
            IF Head(acts).type # "CPU_OP"
            THEN Append(events, activity(KinetoEvent, Head(acts)))
            ELSE events,
            Tail(acts))

\* disableProfiler, line 394: is the popped state a running Kineto state?
disableProfiler_check(state_ptr) ==
    state_ptr # NoState /\ st[state_ptr].config = "KINETO"

\* disableProfiler, line 391: the slots after _pop(PROFILER_STATE) on thread t
disableProfiler_pop_Keep(slots, t) == slots
disableProfiler_pop_Global(slots, t) == [u \in Threads |-> NoState]
disableProfiler_pop(slots, t) == [slots EXCEPT ![t] = NoState]

\* std::unique_ptr<ProfilerResult> disableProfiler()
disableProfiler(t) ==
    LET state_ptr == getProfilerTLSState(t)
    IN IF ~disableProfiler_check(state_ptr)
       THEN \* whatever was in the slot is popped at line 391, then the check
            \* at line 394 throws and the local shared_ptr goes away
            /\ debug_info' = disableProfiler_pop(debug_info, t)
            /\ st' = IF state_ptr = NoState THEN st
                     ELSE release(st, state_ptr, t, st[state_ptr])
            /\ last' = "usage_error"
            /\ UNCHANGED <<corr_id_, rf_tls, opStack, nextOp, corrStack, kineto,
                           result, issued, ended>>
       ELSE LET s0 == st[state_ptr]
                tls == IF s0.handle # 0 THEN removeCallback(rf_tls, t, s0.handle)
                       ELSE rf_tls
                m == [s0 EXCEPT !.legacy = Append(@, "__stop_profile")]
                s1 == [m EXCEPT !.cpu_trace.spanEnd = TRUE]
            IN /\ debug_info' = disableProfiler_pop(debug_info, t)
               /\ rf_tls' = tls
               /\ IF s0.cpu_trace = Null
                  THEN \* line 403 writes through the moved-from cpu_trace
                       /\ st' = release(st, state_ptr, t, m)
                       /\ last' = "undefined"
                       /\ UNCHANGED <<kineto, result, ended>>
                  ELSE IF ~finalizeCPUTrace_ok(s1)
                  THEN \* TORCH_INTERNAL_ASSERT of finalizeCPUTrace throws
                       /\ st' = release(st, state_ptr, t, s1)
                       /\ last' = "failure"
                       /\ ended' = Forget(ended, {state_ptr})
                       /\ UNCHANGED <<kineto, result>>
                  ELSE LET s2 == finalizeCPUTrace(s1)
                           k1 == transferCpuTrace(kineto, s2.cpu_trace)
                           s3 == [s2 EXCEPT !.cpu_trace = Null]
                       IN /\ kineto' = stopTraceState(k1)
                          /\ \E trace \in stopTraceResults(k1) :
                                IF trace = Null
                                THEN /\ st' = release(st, state_ptr, t, s3)
                                     /\ last' = "failure"
                                     /\ ended' = Forget(ended, {state_ptr})
                                     /\ UNCHANGED result
                                ELSE /\ result' =
                                            [events_ |-> addTraceEvents(s2.kineto_events_, trace.activities),
                                             legacy_events_ |-> s2.legacy,
                                             trace_ |-> trace,
                                             saved_ |-> FALSE,
                                             sid |-> state_ptr]
                                     \* kineto_events_ is left moved-from (empty)
                                     /\ st' = release(st, state_ptr, t,
                                                      [s3 EXCEPT !.kineto_events_ = <<>>])
                                     /\ ended' = Forget(ended, IF result = Null THEN {} ELSE {result.sid})
                                     /\ last' = "ok"
               /\ UNCHANGED <<corr_id_, opStack, nextOp, corrStack, issued>>

\* void ProfilerResult::save(path), on result r
ProfilerResult_save_NoFlag(r) == [r EXCEPT !.trace_.saves = @ + 1]
ProfilerResult_save(r) == [r EXCEPT !.trace_.saves = @ + 1, !.saved_ = TRUE]

save ==
    /\ result # Null
    /\ IF result.saved_
       THEN /\ last' = "usage_error"
            /\ UNCHANGED result
       ELSE /\ result' = ProfilerResult_save(result)
            /\ last' = "ok"
    /\ UNCHANGED <<corr_id_, debug_info, rf_tls, st, opStack, nextOp, corrStack,
                   kineto, issued, ended>>

\* --------------------------------------------------- the legacy profiler
\* enableProfilerLegacy on thread t: publishes a non-Kineto state in the slot
enableProfilerLegacy(t) ==
    /\ getProfilerTLSState(t) = NoState
    /\ Len(st) < MaxSessions
    /\ st' = Append(st, [KinetoThreadLocalState("CPU") EXCEPT !.cpu_trace = Null])
    /\ debug_info' = [debug_info EXCEPT ![t] = Len(st) + 1]
    /\ last' = "ok"
    /\ UNCHANGED <<corr_id_, rf_tls, opStack, nextOp, corrStack, kineto, result,
                   issued, ended>>

\* disableProfilerLegacy on a thread whose slot holds a legacy state
disableProfilerLegacy(t) ==
    /\ getProfilerTLSState(t) # NoState
    /\ st[getProfilerTLSState(t)].config # "KINETO"
    /\ st' = release(st, getProfilerTLSState(t), t, st[getProfilerTLSState(t)])
    /\ debug_info' = [debug_info EXCEPT ![t] = NoState]
    /\ last' = "ok"
    /\ UNCHANGED <<corr_id_, rf_tls, opStack, nextOp, corrStack, kineto, result,
                   issued, ended>>

\* ---------------------------------------------------------- specification
Next ==
    \/ \E t \in Threads : StartOp(t)
    \/ \E t \in Threads : EndOp(t)
    \/ \E arg \in Arguments : prepareProfiler(arg[1], arg[2])
    \/ \E t \in Threads, arg \in Arguments : enableProfiler(t, arg[1], arg[2])
    \/ \E t \in Threads : disableProfiler(t)
    \/ save
    \/ \E t \in Threads : enableProfilerLegacy(t)
    \/ \E t \in Threads : disableProfilerLegacy(t)

Spec == Init /\ [][Next]_vars

\* ------------------------------------------- shared thread-local state
\* Thread u, which has no profiling state, goes on under the thread-local
\* state of thread t: its slot refers to the same state object and the same
\* thread-local callbacks are registered on it.
propagateThreadLocalState(t, u) ==
    /\ t # u
    /\ debug_info[t] # NoState
    /\ debug_info[u] = NoState /\ rf_tls[u] = {}
    /\ debug_info' = [debug_info EXCEPT ![u] = debug_info[t]]
    /\ rf_tls' = [rf_tls EXCEPT ![u] = rf_tls[t]]
    /\ UNCHANGED <<corr_id_, st, opStack, nextOp, corrStack, kineto, result,
                   issued, ended, last>>

\* the sessions and the callbacks of the file with shared thread-local
\* state; a run ends with the first undefined behaviour
NextShared ==
    \/ \E t \in Threads : last # "undefined" /\ StartOp(t)
    \/ \E t \in Threads : last # "undefined" /\ EndOp(t)
    \/ \E t \in Threads, arg \in Arguments :
          last # "undefined" /\ enableProfiler(t, arg[1], arg[2])
    \/ \E t \in Threads : last # "undefined" /\ disableProfiler(t)
    \/ \E t, u \in Threads : last # "undefined" /\ propagateThreadLocalState(t, u)

SpecShared == Init /\ [][NextShared]_vars

\* ------------------------------------------------------------------ claims
others == <<corr_id_, debug_info, rf_tls, st, opStack, nextOp, corrStack,
            kineto, result, issued, ended>>

\* the names of the CPU_OP events of an event sequence, in order
RECURSIVE CpuOpNames(_)
CpuOpNames(events) ==
    IF events = <<>> THEN <<>>
    ELSE IF Head(events).activity_type_ = "CPU_OP"
         THEN <<Head(events).name>> \o CpuOpNames(Tail(events))
         ELSE CpuOpNames(Tail(events))

\* the operations whose end callback ran while session sid was active, in
\* the order the end callbacks completed
RECURSIVE EndedOps(_, _)
EndedOps(log, sid) ==
    IF log = <<>> THEN <<>>
    ELSE IF Head(log).sid = sid THEN <<Head(log).op>> \o EndedOps(Tail(log), sid)
         ELSE EndedOps(Tail(log), sid)

\* C1: the event sequence disableProfiler returns holds exactly one CPU_OP
\* entry per operation whose end callback ran under the session, in the
\* order the end callbacks completed (and so does the event sequence of a
\* session that is still active).
C1_CompletionOrder ==
    /\ result # Null => CpuOpNames(result.events_) = EndedOps(ended, result.sid)
    /\ \A t \in Threads :
          Active(t) => CpuOpNames(st[debug_info[t]].kineto_events_) = EndedOps(ended, debug_info[t])

\* C1 witness: a result of a session in which two operations ran nested on
\* one thread, the inner one (started second) completing first
C1_Witness ==
    /\ result # Null
    /\ CpuOpNames(result.events_) = <<2, 1>>
    /\ Len(result.events_) = 3

\* C2: the first value next_correlation_id returns is 1, and the values are
\* strictly increasing in the order the increments take effect, whichever
\* threads call it; so no value is returned twice.
C2_CorrelationIds ==
    /\ issued # <<>> => issued[1] = 1
    /\ \A i, j \in 1..Len(issued) : i < j => issued[i] < issued[j]

\* C2 witness: two ids issued to operations running on two different threads
C2_Witness ==
    /\ Len(issued) = 2
    /\ \A t \in Threads : Len(opStack[t]) = 1
    /\ opStack[1][1].ctx.correlationId # opStack[2][1].ctx.correlationId

\* the arguments enableProfiler accepts on a context without a state
ValidArguments == {arg \in Arguments : arg[1] = "KINETO" /\ arg[2] # {}}

\* C3: enableProfiler on a context whose slot already holds a profiling
\* state ends in a usage error (for valid arguments: the "already enabled"
\* check) and changes nothing: the slot, the state objects with their events
\* and CpuTraceBuffer, the registered callbacks and the collector stay as
\* they were.
C3_DoubleEnable ==
    [][\A t \in Threads, arg \in Arguments :
          (debug_info[t] # NoState /\ enableProfiler(t, arg[1], arg[2]))
          => /\ last' = "usage_error"
             /\ arg \in ValidArguments =>
                   enableProfiler_check(arg[1], arg[2], debug_info[t]) = "err_already"
             /\ UNCHANGED others]_vars

\* C3 witness: a call just ended in a usage error while every context has an
\* active Kineto session (so the call was no disableProfiler) and no result
\* exists (so it was no save); a session holds a recorded event and its
\* callback is still registered
C3_Witness ==
    /\ last = "usage_error"
    /\ result = Null
    /\ \A t \in Threads : Active(t) /\ debug_info[t] \in rf_tls[t]
    /\ \E t \in Threads : Len(st[debug_info[t]].kineto_events_) = 1

\* C4: disableProfiler on a context with no profiling state ends in a usage
\* error and changes nothing at all: the slots, callbacks, events and
\* CpuTraceBuffers of the other contexts and the collector (no transfer, no
\* stop) stay as they were.
C4_DisableWithoutEnable ==
    [][\A t \in Threads :
          (debug_info[t] = NoState /\ disableProfiler(t))
          => /\ last' = "usage_error"
             /\ UNCHANGED others]_vars

\* C4 witness: a call just ended in a usage error on a context without a
\* state while the other context has an active session with a recorded
\* event and the collector is running
C4_Witness ==
    /\ last = "usage_error"
    /\ debug_info[1] = NoState
    /\ Active(2)
    /\ Len(st[debug_info[2]].kineto_events_) = 1
    /\ kineto.running = 1

\* C5 (the claim as stated): a disableProfiler that fails because the state
\* in the slot is not a Kineto state leaves that state in the slot.
C5_FailedDisableKeepsState ==
    [][\A t \in Threads :
          (debug_info[t] # NoState /\ ~Active(t) /\ disableProfiler(t))
          => /\ last' = "usage_error"
             /\ debug_info'[t] = debug_info[t]]_vars

\* C6: enableProfiler with a config that is not KINETO, or with no
\* activities, ends in a usage error and changes nothing (no state is
\* published, no callback installed, the collector not started); on a
\* context without a state an enableProfiler with valid arguments then
\* passes every check.
C6_EnableBadArguments ==
    [][\A t \in Threads, arg \in Arguments \ ValidArguments :
          enableProfiler(t, arg[1], arg[2])
          => /\ last' = "usage_error"
             /\ UNCHANGED others
             /\ debug_info[t] = NoState =>
                   \A ok \in ValidArguments :
                      enableProfiler_check(ok[1], ok[2], debug_info'[t]) = "ok"]_vars

\* C6 witness: a call just ended in a usage error while no context has a
\* state or a callback, the collector was never started and nothing was
\* prepared
C6_Witness ==
    /\ last = "usage_error"
    /\ \A t \in Threads : debug_info[t] = NoState /\ rf_tls[t] = {}
    /\ st = <<>>
    /\ kineto = [prepared |-> FALSE, running |-> 0, cpu |-> <<>>, span |-> NoSpan]

\* C7: when stopTrace returns no trace, disableProfiler fails, but the
\* session is torn down: the slot is empty, the session's callback is not
\* registered any more, and a following enableProfiler with valid arguments
\* passes the "already enabled" check.
C7_NoTraceTearsDown ==
    [][\A t \in Threads :
          (last' = "failure" /\ disableProfiler(t))
          => /\ debug_info'[t] = NoState
             /\ debug_info[t] \notin rf_tls'[t]
             /\ st'[debug_info[t]] = Destroyed
             /\ \A ok \in ValidArguments :
                   enableProfiler_check(ok[1], ok[2], debug_info'[t]) = "ok"]_vars

\* C7 witness: a disableProfiler just failed for want of a trace on a
\* session that had captured an operation: the first session is gone,
\* nothing is registered and no result was produced
C7_Witness ==
    /\ last = "failure"
    /\ result = Null
    /\ Len(st) = 1 /\ st[1] = Destroyed
    /\ issued # <<>>
    /\ \A t \in Threads : debug_info[t] = NoState /\ rf_tls[t] = {}

\* the session controller's state on context t; "Legacy" is a context whose
\* slot holds the state of the legacy profiler
SessionState(t) ==
    IF debug_info[t] # NoState
    THEN IF Active(t) THEN "Active" ELSE "Legacy"
    ELSE IF kineto.prepared THEN "Preparing" ELSE "Disabled"

\* C8 (the claim as stated): prepareProfiler is not accepted while a session
\* is Active on the context; enableProfiler is accepted only when Disabled or
\* Preparing and leads to Active; disableProfiler is accepted only when
\* Active and leads to Disabled.
C8_StateMachine ==
    [][/\ \A t \in Threads, arg \in Arguments :
             /\ (last' = "ok" /\ SessionState(t) = "Active")
                   => ~prepareProfiler(arg[1], arg[2])
             /\ (last' = "ok" /\ enableProfiler(t, arg[1], arg[2]))
                   => SessionState(t) \in {"Disabled", "Preparing"} /\ SessionState(t)' = "Active"
       /\ \A t \in Threads :
             (last' = "ok" /\ disableProfiler(t))
                => SessionState(t) = "Active" /\ SessionState(t)' = "Disabled"]_vars

\* C8 (amended): prepareProfiler is accepted in every state, Active
\* included, exactly when config.state is KINETO, and leaves the slots, the
\* state objects and the callbacks alone; enableProfiler is accepted only
\* when Disabled or Preparing and leads to Active; disableProfiler is
\* accepted only when Active and leads to Disabled.
C8_StateMachineAmended ==
    [][/\ \A arg \in Arguments :
             prepareProfiler(arg[1], arg[2])
                => /\ last' = "ok" <=> arg[1] = "KINETO"
                   /\ UNCHANGED <<debug_info, st, rf_tls>>
       /\ \A t \in Threads, arg \in Arguments :
             (last' = "ok" /\ enableProfiler(t, arg[1], arg[2]))
                => SessionState(t) \in {"Disabled", "Preparing"} /\ SessionState(t)' = "Active"
       /\ \A t \in Threads :
             (last' = "ok" /\ disableProfiler(t))
                => SessionState(t) = "Active" /\ SessionState(t)' = "Disabled"]_vars

\* C8 witness: the collector is prepared while every context is Active:
\* startTrace clears the preparation, so a prepareProfiler was accepted after
\* the latest enableProfiler, with its caller Active
C8_Witness ==
    /\ kineto.prepared
    /\ last = "ok"
    /\ \A t \in Threads : SessionState(t) = "Active"

\* C9: a result is saved at most once: the trace's save runs at most once,
\* exactly when saved_ is set, and a save on a saved result ends in a usage
\* error without touching the result.
C9_SaveOnce ==
    /\ [](result # Null =>
            /\ result.trace_.saves <= 1
            /\ result.saved_ <=> result.trace_.saves = 1)
    /\ [][(save /\ result.saved_) => (last' = "usage_error" /\ result' = result)]_vars

\* C9 witness: a call was just refused while the result, which holds events,
\* has been saved exactly once
C9_Witness ==
    /\ result # Null
    /\ result.saved_
    /\ result.trace_.saves = 1
    /\ last = "usage_error"
    /\ Len(result.events_) >= 1

\* Within this file the callback pair is registered on a thread only while
\* that thread's slot holds a Kineto state, so the start callback never
\* returns the no-op context (the premise of C10 does not occur).
StartAlwaysInstruments ==
    /\ \A t \in Threads : rf_tls[t] # {} => Active(t)
    /\ \A t \in Threads : \A i \in 1..Len(opStack[t]) : opStack[t][i].ctx # NoopContext

\* the activity kinds of an event sequence, in order
Kinds(events) == [i \in 1..Len(events) |-> events[i].activity_type_]

\* the activities of a trace that are not CPU_OP, in the collector's order
RECURSIVE NonCpuOps(_)
NonCpuOps(acts) ==
    IF acts = <<>> THEN <<>>
    ELSE IF Head(acts).type # "CPU_OP" THEN <<Head(acts)>> \o NonCpuOps(Tail(acts))
         ELSE NonCpuOps(Tail(acts))

\* C12: the event sequence of the result of a successful disableProfiler is
\* the session's own events, unchanged and in their order, followed by one
\* event per activity of the returned trace that is not a CPU_OP, in the
\* trace's order; the trace's CPU_OP activities add nothing, so no operation
\* appears twice.
C12_MergedEvents ==
    [][\A t \in Threads :
          (last' = "ok" /\ Active(t) /\ disableProfiler(t))
          => LET own == st[debug_info[t]].kineto_events_
                 ext == NonCpuOps(result'.trace_.activities)
                 all == result'.events_
             IN /\ Len(all) = Len(own) + Len(ext)
                /\ SubSeq(all, 1, Len(own)) = own
                /\ \A i \in 1..Len(ext) :
                      /\ all[Len(own) + i].activity_type_ = ext[i].type
                      /\ all[Len(own) + i].name = ext[i].name
                /\ \A i, j \in 1..Len(all) :
                      (i < j /\ all[i].activity_type_ = "CPU_OP" /\ all[j].activity_type_ = "CPU_OP")
                         => all[i].name # all[j].name]_vars

\* C12 witness: a result whose trace reports a memory copy, the session's
\* CPU_OP and a kernel, and whose events are the session's own event followed
\* by the memory copy and the kernel
C12_Witness ==
    /\ result # Null
    /\ [i \in 1..Len(result.trace_.activities) |-> result.trace_.activities[i].type]
          = <<"GPU_MEMCPY", "CPU_OP", "CONCURRENT_KERNEL">>
    /\ Kinds(result.events_) = <<"CPU_OP", "GPU_MEMCPY", "CONCURRENT_KERNEL">>

\* C13: in every result an event with a correlation id of its own is a
\* CPU_OP; the events imported from the trace (the last ones, one per
\* non-CPU_OP activity) have no correlation id of their own, and the one of
\* an activity with a linked activity has that activity's correlation id as
\* its linked correlation id.
C13_CorrelationOnlyForCpuOps ==
    result # Null =>
        LET all == result.events_
            ext == NonCpuOps(result.trace_.activities)
            own == Len(all) - Len(ext)
        IN /\ \A i \in 1..Len(all) :
                 all[i].correlation_id_ # 0 => all[i].activity_type_ = "CPU_OP"
           /\ \A i \in 1..Len(ext) :
                 /\ all[own + i].correlation_id_ = 0
                 /\ ext[i].linked # 0 => all[own + i].linked_correlation_id_ = ext[i].linked

\* C13 witness: a result with a kernel event that has no correlation id of
\* its own, imported from an activity that has one, and whose linked
\* correlation id is the correlation id of a CPU_OP event of the result
C13_Witness ==
    /\ result # Null
    /\ \E i, j \in 1..Len(result.events_) :
          /\ result.events_[i].activity_type_ = "CPU_OP"
          /\ result.events_[i].correlation_id_ # 0
          /\ result.events_[j].activity_type_ = "CONCURRENT_KERNEL"
          /\ result.events_[j].correlation_id_ = 0
          /\ result.events_[j].linked_correlation_id_ = result.events_[i].correlation_id_
    /\ \E k \in 1..Len(result.trace_.activities) :
          /\ result.trace_.activities[k].type = "CONCURRENT_KERNEL"
          /\ result.trace_.activities[k].correlation # 0

\* C14 (the claim as stated): start and stop requests to the process-wide
\* collector alternate: startTrace is never issued while a trace started
\* earlier has not been stopped, so at most one started trace is outstanding.
C14_StartStopAlternate == kineto.running <= 1

\* C19: while a state still owns its buffers, its event sequence and its
\* CpuTraceBuffer are index-aligned, also when end callbacks of several
\* threads append to it: they have the same length and the i-th event and
\* the i-th activity carry the same correlation id and name.
C19_IndexAligned ==
    \A sid \in 1..Len(st) :
       (st[sid] # Destroyed /\ st[sid].config = "KINETO" /\ st[sid].cpu_trace # Null)
       => LET events == st[sid].kineto_events_
              acts == st[sid].cpu_trace.activities
          IN /\ Len(events) = Len(acts)
             /\ \A i \in 1..Len(events) :
                   /\ events[i].correlation_id_ = acts[i].correlation
                   /\ events[i].name = acts[i].name

\* C19 witness: a state that owns its buffers and holds two aligned entries
\* appended by end callbacks that ran on two different threads
C19_Witness ==
    \E sid \in 1..Len(st) :
       /\ st[sid] # Destroyed
       /\ st[sid].cpu_trace # Null
       /\ Len(st[sid].kineto_events_) = 2
       /\ Len(st[sid].cpu_trace.activities) = 2
       /\ st[sid].kineto_events_[1].endThreadId # st[sid].kineto_events_[2].endThreadId
       /\ st[sid].kineto_events_[1].correlation_id_ # st[sid].kineto_events_[2].correlation_id_

\* C20 (the claim as stated): an end callback that reaches
\* reportClientActivity finds a state that still owns its buffers: none runs
\* on a state whose CpuTraceBuffer disableProfiler has handed to the
\* collector, whichever context it runs on.
C20_NoAccessAfterTeardown ==
    [][\A t \in Threads :
          (Active(t) /\ EndOp(t)) => st[debug_info[t]].cpu_trace # Null]_vars

\* the CPU_OP activities of a trace, in order
RECURSIVE CpuOps(_)
CpuOps(acts) ==
    IF acts = <<>> THEN <<>>
    ELSE IF Head(acts).type = "CPU_OP" THEN <<Head(acts)>> \o CpuOps(Tail(acts))
         ELSE CpuOps(Tail(acts))

\* C16: whenever disableProfiler runs on an active session, the
\* CpuTraceBuffer holds as many activities as the event sequence holds
\* events, so the assertion of finalizeCPUTrace passes; and every state that
\* owns its buffers has as many of the one as of the other.
C16_AssertionNeverFires ==
    /\ [](\A t \in Threads :
             Active(t) => Len(st[debug_info[t]].cpu_trace.activities)
                             = Len(st[debug_info[t]].kineto_events_))
    /\ [][\A t \in Threads :
             (Active(t) /\ disableProfiler(t))
             => Len(st[debug_info[t]].cpu_trace.activities)
                   = Len(st[debug_info[t]].kineto_events_)]_vars

\* C16 witness: a disableProfiler just succeeded on a session that recorded
\* two nested operations (the inner one first) while a session enabled
\* without CPU capture is active on the other thread
C16_Witness ==
    /\ last = "ok"
    /\ result # Null /\ ~result.saved_
    /\ CpuOpNames(result.events_) = <<2, 1>>
    /\ Len(CpuOps(result.trace_.activities)) = 2
    /\ \E t \in Threads :
          Active(t) /\ st[debug_info[t]].handle = 0 /\ st[debug_info[t]].kineto_events_ = <<>>

\* C17: the callbacks registered on a context are exactly the handle of its
\* active session when that session installed them; a successful
\* enableProfiler installs them exactly when CPU is among the activities; a
\* disableProfiler on an active session, successful or failed, removes
\* exactly the session's handle.
C17_CallbacksWhileActive ==
    /\ [](\A t \in Threads :
             rf_tls[t] = IF Active(t) /\ st[debug_info[t]].handle # 0
                         THEN {debug_info[t]} ELSE {})
    /\ [][/\ \A t \in Threads, arg \in Arguments :
                (last' = "ok" /\ enableProfiler(t, arg[1], arg[2]))
                => /\ rf_tls'[t] # {} <=> "CPU" \in arg[2]
                   /\ st'[debug_info'[t]].handle # 0 <=> "CPU" \in arg[2]
                   /\ \A u \in Threads \ {t} : rf_tls'[u] = rf_tls[u]
          /\ \A t \in Threads :
                (Active(t) /\ disableProfiler(t))
                => /\ rf_tls'[t] = rf_tls[t] \ {debug_info[t]}
                   /\ rf_tls'[t] = {}
                   /\ \A u \in Threads \ {t} : rf_tls'[u] = rf_tls[u]]_vars

\* C17 witness: a session whose callbacks recorded an operation has been
\* disabled and no callback is registered on any context, while a session
\* enabled without CPU is active
C17_Witness ==
    /\ result # Null /\ CpuOpNames(result.events_) # <<>>
    /\ st[result.sid] = Destroyed
    /\ \A t \in Threads : rf_tls[t] = {}
    /\ \E u \in Threads : Active(u) /\ st[debug_info[u]].handle = 0

\* C18 (the claim as stated): pushes and pops of correlation ids are
\* balanced per operation: the correlation stack of a context holds exactly
\* the ids of its running operations, so it is empty once all have ended.
C18_CorrelationStackBalanced ==
    \A t \in Threads :
       corrStack[t] = [i \in 1..Len(opStack[t]) |-> opStack[t][i].ctx.correlationId]

\* C15: every disableProfiler on an active session unregisters the
\* session's callbacks, and a successful one hands the collector the buffer
\* with its end time stamped and its activities carrying the metadata
\* finalizeCPUTrace attaches, before it requests the stop (the returned trace
\* holds exactly these activities); the activities the collector reports on
\* its own are imported after that, and the state is left without a
\* CpuTraceBuffer.
C15_DisableOrder ==
    [][\A t \in Threads :
          (Active(t) /\ st[debug_info[t]].cpu_trace # Null /\ disableProfiler(t))
          => LET sid == debug_info[t]
                 s == st[sid]
             IN /\ sid \notin rf_tls'[t]
                /\ last' = "ok" =>
                      LET tr == result'.trace_
                          cpu == CpuOps(tr.activities)
                      IN /\ tr.span.startTime /\ tr.span.endTime
                         /\ Len(cpu) = Len(s.cpu_trace.activities)
                         /\ \A i \in 1..Len(cpu) :
                               /\ cpu[i].correlation = s.cpu_trace.activities[i].correlation
                               /\ cpu[i].meta = s.kineto_events_[i].sequenceNr
                         /\ Len(result'.events_)
                               = Len(s.kineto_events_) + Len(NonCpuOps(tr.activities))
                         /\ kineto'.cpu = <<>>
                         /\ st'[sid] = Destroyed \/ st'[sid].cpu_trace = Null]_vars

\* C15 witness: a disableProfiler just succeeded on a session that recorded
\* an operation; the trace has the stamped span and the finalized activity,
\* and the state object, still held by the other thread, owns no
\* CpuTraceBuffer and no events
C15_Witness ==
    /\ last = "ok"
    /\ result # Null /\ ~result.saved_
    /\ result.trace_.span.endTime
    /\ \E i \in 1..Len(result.trace_.activities) :
          result.trace_.activities[i].type = "CPU_OP" /\ result.trace_.activities[i].meta >= 0
    /\ st[result.sid] # Destroyed
    /\ st[result.sid].cpu_trace = Null
    /\ st[result.sid].kineto_events_ = <<>>

====
